---- MODULE Spec2Model ----
(***************************************************************************)
(* Model of analyze.py (vermi/gnlp-analyze): the token aggregation of      *)
(* gnlp_syntax, the batch run analyze_file over a TinyDB store, the blob   *)
(* run analyze_blob with writeJson, and the SIGINT handler.                *)
(***************************************************************************)
EXTENDS Integers, Sequences, FiniteSets, TLC

\* ------------------------------------------------------------------ bounds
MaxTokens == 6      \* longest token list a syntax response carries
MaxPosts == 2       \* most records of the "posts" table
MaxComments == 2    \* most records of the "comments" table

\* -------------------------------------------------- remote syntax responses
Contents == {"a", "b", "c"}
Tags == {"NOUN", "VERB"}
Token == [content : Contents, tag : Tags]

RECURSIVE SeqsUpTo(_, _)
SeqsUpTo(S, n) ==
    IF n = 0 THEN {<<>>}
    ELSE LET shorter == SeqsUpTo(S, n - 1)
         IN shorter \cup {Append(s, x) : s \in {t \in shorter : Len(t) = n - 1}, x \in S}

TokenLists == SeqsUpTo(Token, MaxTokens)
SentenceCounts == {0, 1}
SyntaxResponses == [tokens : TokenLists, sentences : SentenceCounts]

\* ------------------------------------------------ gnlp_syntax, lines 112-135
\* A Python dict is modelled as the sequence of its entries in insertion order.
HasKey(tokens, tok) == \E i \in 1..Len(tokens) : tokens[i].tok = tok

BumpNever(n) == n
Bump(n) == n + 1

\* lines 119-122: one iteration of the loop over response.tokens
AddToken(tokens, token) ==
    IF ~HasKey(tokens, token.content)
    THEN Append(tokens, [tok |-> token.content, part |-> token.tag, count |-> 1])
    ELSE [i \in 1..Len(tokens) |->
            IF tokens[i].tok = token.content
            THEN [tokens[i] EXCEPT !.count = Bump(@)]
            ELSE tokens[i]]

\* lines 115-122: the whole loop
RECURSIVE CountTokens(_)
CountTokens(toks) ==
    IF toks = <<>> THEN <<>>
    ELSE AddToken(CountTokens(SubSeq(toks, 1, Len(toks) - 1)), toks[Len(toks)])

\* Position at which a stable descending sort places entry e in an already
\* sorted sequence: behind every entry whose count is not smaller.
InsertPosTiesFirst(sorted, e) ==
    Cardinality({i \in 1..Len(sorted) : sorted[i].count > e.count})
InsertPos(sorted, e) ==
    Cardinality({i \in 1..Len(sorted) : sorted[i].count >= e.count})

InsertSorted(sorted, e) ==
    LET p == InsertPos(sorted, e)
    IN SubSeq(sorted, 1, p) \o <<e>> \o SubSeq(sorted, p + 1, Len(sorted))

\* line 124: sorted(tokens, key=count, reverse=True); Python's sort is stable
\* and reverse=True keeps the original order of entries with equal keys.
RECURSIVE SortByCount(_)
SortByCount(tokens) ==
    IF tokens = <<>> THEN <<>>
    ELSE InsertSorted(SortByCount(SubSeq(tokens, 1, Len(tokens) - 1)),
                      tokens[Len(tokens)])

sorted_keys(tokens) ==
    LET s == SortByCount(tokens) IN [i \in 1..Len(s) |-> s[i].tok]

Lookup(tokens, k) == tokens[CHOOSE i \in 1..Len(tokens) : tokens[i].tok = k]

\* lines 126-127: sorted_tok[k] = tokens[k] for k in sorted_keys
sorted_tok(tokens) ==
    LET ks == sorted_keys(tokens) IN [i \in 1..Len(ks) |-> Lookup(tokens, ks[i])]

\* lines 112-135: the dict gnlp_syntax returns for a response
gnlp_syntax(response) ==
    [sentences |-> response.sentences,
     token_count |-> Len(response.tokens),
     tokens |-> sorted_tok(CountTokens(response.tokens))]

\* ------------------------------------------------------------ program state
VARIABLES
    argT,        \* args.t: <<>> when -t is absent, <<text>> when given
    argF,        \* args.f: TRUE when -f FILE is given
    argStdout,   \* args.stdoutOnly
    fileExists,  \* os.path.isfile(fpath)
    stdoutOnly,  \* the module global of line 32
    db,          \* the TinyDB store on disk: tables _default, posts, comments
    db0,         \* the store as it was when the run started
    pc,          \* position of the main thread
    table,       \* the table the running loop of analyze_file iterates
    docs,        \* the list table.all() returned for the running loop
    idx,         \* position of the loop in docs
    syntax,      \* local of the loop body: <<>> or <<value>>
    sentiment,   \* local of the loop body: <<>> or <<value>>
    result,      \* local of analyze_blob: the dict as a sequence of entries
    outFiles,    \* JSON files writeJson created under ./data
    printed,     \* objects writeJson dumped to standard output
    storeWrites, \* number of writes of the store file made by this run
    callLog,     \* the remote calls made, in order, with their outcome
    updateLog,   \* the update calls made on the store, in order
    response,    \* local of gnlp_syntax: <<>> or <<the syntax response received>>
    status,      \* "running" or "exited"
    exitCode,    \* process exit status once exited
    exitCause    \* why the process ended

vars == <<argT, argF, argStdout, fileExists, stdoutOnly, db, db0, pc, table, docs,
          idx, syntax, sentiment, result, outFiles, printed, storeWrites, callLog,
          updateLog, response, status, exitCode, exitCause>>

env == <<argT, argF, argStdout, fileExists, db0>>
loopVars == <<table, docs, idx>>
locals == <<syntax, sentiment, response>>
outVars == <<outFiles, printed>>
exitVars == <<status, exitCode, exitCause>>

\* ------------------------------------------------------------------ inputs
Tok(c, t) == [content |-> c, tag |-> t]

\* syntax responses the remote service gives during a run
RunResponses ==
    {[tokens |-> <<Tok("a", "NOUN"), Tok("b", "VERB"), Tok("a", "VERB")>>, sentences |-> 1],
     [tokens |-> <<Tok("b", "NOUN")>>, sentences |-> 1]}
\* sentiment responses (score and magnitude in tenths)
RunSentiments == {[score |-> 8, magnitude |-> 12]}

\* fields left in a record by an earlier, completed run over the same store
PriorSyntax == gnlp_syntax([tokens |-> <<Tok("c", "NOUN"), Tok("c", "NOUN")>>, sentences |-> 2])
PriorSentiment == [score |-> 0, magnitude |-> 0]

Texts == {"", "t"}
FreshRecords == [text : Texts, syntax : {<<>>}, sentiment : {<<>>}]
AnalyzedRecords == [text : Texts, syntax : {<<PriorSyntax>>}, sentiment : {<<PriorSentiment>>}]
Records == FreshRecords \cup AnalyzedRecords

\* records of the default table, with or without the subreddit field
DefaultTables ==
    {<<>>, <<[subreddit |-> <<>>]>>, <<[subreddit |-> <<>>], [subreddit |-> <<"r">>]>>}

Stores ==
    [default : DefaultTables,
     posts : SeqsUpTo(Records, MaxPosts),
     comments : SeqsUpTo(Records, MaxComments)]
EmptyStore == [default |-> <<>>, posts |-> <<>>, comments |-> <<>>]

\* blob texts as character sequences; BS is a backslash, DQ a double quote
BS == "\\"
DQ == "\""
BlobTexts == {<<>>, <<"h">>, <<BS, DQ>>, <<"h", BS, DQ, "i">>, <<DQ, BS>>}

Init ==
    /\ argStdout \in BOOLEAN
    /\ \/ /\ argT \in {<<t>> : t \in BlobTexts}
          /\ argF = FALSE
          /\ fileExists = FALSE
          /\ db = EmptyStore
       \/ /\ argT = <<>>
          /\ argF = TRUE
          /\ \/ fileExists = FALSE /\ db = EmptyStore
             \/ fileExists = TRUE /\ db \in Stores
    /\ db0 = db
    /\ stdoutOnly = FALSE
    /\ pc = "main"
    /\ table = "none"
    /\ docs = <<>>
    /\ idx = 0
    /\ syntax = <<>>
    /\ sentiment = <<>>
    /\ result = <<>>
    /\ outFiles = <<>>
    /\ printed = <<>>
    /\ storeWrites = 0
    /\ callLog = <<>>
    /\ updateLog = <<>>
    /\ response = <<>>
    /\ status = "running"
    /\ exitCode = 0
    /\ exitCause = "none"

\* ------------------------------------------------------------ process exit
SigintExitCode == 0       \* sys.exit(0), line 78
ExitNoArgCode == 0        \* exit() without argument, lines 141 and 146
UncaughtErrorCode == 1    \* an exception that leaves main(), line 217

Exit(code, cause) ==
    /\ status' = "exited"
    /\ exitCode' = code
    /\ exitCause' = cause
    /\ pc' = "exited"

Running(at) == status = "running" /\ pc = at

\* ------------------------------------------------------- main, lines 184-212
\* `if args.t:` is false for an absent and for an empty text
TextGiven == argT /= <<>> /\ argT[1] /= <<>>

\* the assignment of line 205 without the global statement of line 204
MainBlobNoGlobal ==
    /\ Running("main")
    /\ TextGiven
    /\ stdoutOnly' = stdoutOnly
    /\ pc' = "blob"
    /\ UNCHANGED <<env, db, loopVars, locals, result, outVars, storeWrites, callLog,
                   updateLog, exitVars>>

MainBlob ==
    /\ Running("main")
    /\ TextGiven
    /\ stdoutOnly' = argStdout
    /\ pc' = "blob"
    /\ UNCHANGED <<env, db, loopVars, locals, result, outVars, storeWrites, callLog,
                   updateLog, exitVars>>

MainFile ==
    /\ Running("main")
    /\ ~TextGiven
    /\ argF
    /\ stdoutOnly' = argStdout
    /\ pc' = "file"
    /\ UNCHANGED <<env, db, loopVars, locals, result, outVars, storeWrites, callLog,
                   updateLog, exitVars>>

\* line 212: neither branch taken (-t with an empty text)
MainRaise ==
    /\ Running("main")
    /\ ~TextGiven
    /\ ~argF
    /\ stdoutOnly' = argStdout
    /\ Exit(UncaughtErrorCode, "exception")
    /\ UNCHANGED <<env, db, loopVars, locals, result, outVars, storeWrites, callLog,
                   updateLog>>

\* ------------------------------------------------ remote calls, lines 81-110
Call(kind, tbl, id, ok) == [kind |-> kind, table |-> tbl, doc_id |-> id, ok |-> ok]

\* ----------------------------------------------- analyze_blob, lines 174-181
\* line 175: text.replace('\\"', '"'), left to right, non-overlapping
RECURSIVE Unescape(_)
Unescape(text) ==
    IF Len(text) = 0 THEN <<>>
    ELSE IF Len(text) >= 2 /\ text[1] = BS /\ text[2] = DQ
         THEN <<DQ>> \o Unescape(SubSeq(text, 3, Len(text)))
         ELSE <<text[1]>> \o Unescape(SubSeq(text, 2, Len(text)))

Entry(k, v) == [key |-> k, value |-> v]

\* lines 175-178
BlobOriginal ==
    /\ Running("blob")
    /\ result' = <<Entry("original", Unescape(argT[1]))>>
    /\ pc' = "blob_syntax"
    /\ UNCHANGED <<env, stdoutOnly, db, loopVars, locals, outVars, storeWrites, callLog,
                   updateLog, exitVars>>

\* line 179, the call returns
BlobSyntaxOk ==
    /\ Running("blob_syntax")
    /\ \E r \in RunResponses :
          /\ response' = <<r>>
          /\ result' = Append(result, Entry("syntax", gnlp_syntax(r)))
    /\ callLog' = Append(callLog, Call("syntax", "blob", 0, TRUE))
    /\ pc' = "blob_sentiment"
    /\ UNCHANGED <<env, stdoutOnly, db, loopVars, syntax, sentiment, outVars,
                   storeWrites, updateLog, exitVars>>

\* line 179, the call raises
BlobSyntaxFail ==
    /\ Running("blob_syntax")
    /\ callLog' = Append(callLog, Call("syntax", "blob", 0, FALSE))
    /\ Exit(UncaughtErrorCode, "remote_error")
    /\ UNCHANGED <<env, stdoutOnly, db, loopVars, locals, result, outVars, storeWrites,
                   updateLog>>

\* line 180, the call returns
BlobSentimentOk ==
    /\ Running("blob_sentiment")
    /\ \E s \in RunSentiments : result' = Append(result, Entry("sentiment", s))
    /\ callLog' = Append(callLog, Call("sentiment", "blob", 0, TRUE))
    /\ pc' = "blob_write"
    /\ UNCHANGED <<env, stdoutOnly, db, loopVars, locals, outVars, storeWrites,
                   updateLog, exitVars>>

\* line 180, the call raises
BlobSentimentFail ==
    /\ Running("blob_sentiment")
    /\ callLog' = Append(callLog, Call("sentiment", "blob", 0, FALSE))
    /\ Exit(UncaughtErrorCode, "remote_error")
    /\ UNCHANGED <<env, stdoutOnly, db, loopVars, locals, result, outVars, storeWrites,
                   updateLog>>

\* --------------------------------------------------- writeJson, lines 61-73
\* line 181 with lines 61-73, then main returns
WriteJson ==
    /\ Running("blob_write")
    /\ IF stdoutOnly
       THEN printed' = Append(printed, result) /\ outFiles' = outFiles
       ELSE outFiles' = Append(outFiles, result) /\ printed' = printed
    /\ Exit(0, "normal")
    /\ UNCHANGED <<env, stdoutOnly, db, loopVars, locals, result, storeWrites, callLog,
                   updateLog>>

\* ----------------------------------------------- analyze_file, lines 138-171
\* lines 139-141: the file is missing; exit() without argument
FileNotFound ==
    /\ Running("file")
    /\ ~fileExists
    /\ Exit(ExitNoArgCode, "not_found")
    /\ UNCHANGED <<env, stdoutOnly, db, loopVars, locals, result, outVars, storeWrites,
                   callLog, updateLog>>

\* lines 139-143: the file exists and is opened
FileOpen ==
    /\ Running("file")
    /\ fileExists
    /\ pc' = "schema"
    /\ UNCHANGED <<env, stdoutOnly, db, loopVars, locals, result, outVars, storeWrites,
                   callLog, updateLog, exitVars>>

\* line 144: db.contains(Query().subreddit) over the default table
ContainsAnything(records) == TRUE
Contains(records) == \E i \in 1..Len(records) : records[i].subreddit /= <<>>

\* lines 144-146: no record carries the probe field; exit() without argument
SchemaError ==
    /\ Running("schema")
    /\ ~Contains(db.default)
    /\ Exit(ExitNoArgCode, "schema")
    /\ UNCHANGED <<env, stdoutOnly, db, loopVars, locals, result, outVars, storeWrites,
                   callLog, updateLog>>

Records_of(store, tbl) == IF tbl = "posts" THEN store.posts ELSE store.comments

\* table.all(): the documents of a table with their doc_id
All(store, tbl) ==
    LET recs == Records_of(store, tbl)
    IN [i \in 1..Len(recs) |->
          [doc_id |-> i, text |-> recs[i].text,
           syntax |-> recs[i].syntax, sentiment |-> recs[i].sentiment]]

\* lines 144-152: the schema is accepted and the loop over posts starts
SchemaOk ==
    /\ Running("schema")
    /\ Contains(db.default)
    /\ table' = "posts"
    /\ docs' = All(db, "posts")
    /\ idx' = 1
    /\ pc' = "loop"
    /\ UNCHANGED <<env, stdoutOnly, db, locals, result, outVars, storeWrites, callLog,
                   updateLog, exitVars>>

\* lines 153 and 164: document["text"] != ""
NeedsAnalysisAlways(document) == TRUE
NeedsAnalysis(document) == document.text /= ""

\* lines 152-153, 163-164: the next document has text
LoopAnalyze ==
    /\ Running("loop")
    /\ idx <= Len(docs)
    /\ NeedsAnalysis(docs[idx])
    /\ pc' = "syntax"
    /\ UNCHANGED <<env, stdoutOnly, db, loopVars, locals, result, outVars, storeWrites,
                   callLog, updateLog, exitVars>>

\* lines 153/161, 164/171: the next document has no text; bar.next()
LoopSkip ==
    /\ Running("loop")
    /\ idx <= Len(docs)
    /\ ~NeedsAnalysis(docs[idx])
    /\ idx' = idx + 1
    /\ UNCHANGED <<env, stdoutOnly, db, table, docs, pc, locals, result, outVars,
                   storeWrites, callLog, updateLog, exitVars>>

\* lines 152, 163: the posts are exhausted, the loop over comments starts
LoopComments ==
    /\ Running("loop")
    /\ idx > Len(docs)
    /\ table = "posts"
    /\ table' = "comments"
    /\ docs' = All(db, "comments")
    /\ idx' = 1
    /\ UNCHANGED <<env, stdoutOnly, db, pc, locals, result, outVars, storeWrites,
                   callLog, updateLog, exitVars>>

\* line 163 and the return of main: the comments are exhausted
LoopDone ==
    /\ Running("loop")
    /\ idx > Len(docs)
    /\ table = "comments"
    /\ Exit(0, "normal")
    /\ UNCHANGED <<env, stdoutOnly, db, loopVars, locals, result, outVars, storeWrites,
                   callLog, updateLog>>

\* lines 154 and 165, the call returns
SyntaxOk ==
    /\ Running("syntax")
    /\ \E r \in RunResponses :
          /\ response' = <<r>>
          /\ syntax' = <<gnlp_syntax(r)>>
    /\ callLog' = Append(callLog, Call("syntax", table, docs[idx].doc_id, TRUE))
    /\ pc' = "sentiment"
    /\ UNCHANGED <<env, stdoutOnly, db, loopVars, sentiment, result, outVars,
                   storeWrites, updateLog, exitVars>>

\* a failed call that is swallowed and the document passed over
SyntaxFailSkips ==
    /\ Running("syntax")
    /\ callLog' = Append(callLog, Call("syntax", table, docs[idx].doc_id, FALSE))
    /\ idx' = idx + 1
    /\ pc' = "loop"
    /\ UNCHANGED <<env, stdoutOnly, db, table, docs, locals, result, outVars,
                   storeWrites, updateLog, exitVars>>

\* lines 154 and 165, the call raises: nothing catches it
SyntaxFail ==
    /\ Running("syntax")
    /\ callLog' = Append(callLog, Call("syntax", table, docs[idx].doc_id, FALSE))
    /\ Exit(UncaughtErrorCode, "remote_error")
    /\ UNCHANGED <<env, stdoutOnly, db, loopVars, locals, result, outVars, storeWrites,
                   updateLog>>

\* lines 155 and 166, the call returns
SentimentOk ==
    /\ Running("sentiment")
    /\ \E s \in RunSentiments : sentiment' = <<s>>
    /\ callLog' = Append(callLog, Call("sentiment", table, docs[idx].doc_id, TRUE))
    /\ pc' = "update"
    /\ UNCHANGED <<env, stdoutOnly, db, loopVars, syntax, response, result, outVars,
                   storeWrites, updateLog, exitVars>>

\* lines 155 and 166, the call raises: nothing catches it
SentimentFail ==
    /\ Running("sentiment")
    /\ callLog' = Append(callLog, Call("sentiment", table, docs[idx].doc_id, FALSE))
    /\ Exit(UncaughtErrorCode, "remote_error")
    /\ UNCHANGED <<env, stdoutOnly, db, loopVars, locals, result, outVars, storeWrites,
                   updateLog>>

\* the merge of update's field dict into one record
MergeSyntaxOnly(rec, fields) == [rec EXCEPT !.syntax = <<fields.syntax>>]
Merge(rec, fields) ==
    [rec EXCEPT !.syntax = <<fields.syntax>>, !.sentiment = <<fields.sentiment>>]

\* table.update(fields, doc_ids=...) as it leaves the store file
StoreKeptInMemory(store, tbl, fields, doc_ids) == store
StoreAfterUpdate(store, tbl, fields, doc_ids) ==
    LET recs == Records_of(store, tbl)
        new == [i \in 1..Len(recs) |->
                  IF i \in doc_ids THEN Merge(recs[i], fields) ELSE recs[i]]
    IN IF tbl = "posts" THEN [store EXCEPT !.posts = new]
       ELSE [store EXCEPT !.comments = new]

\* lines 156-161 and 167-171: the update of the one record, then bar.next()
Update ==
    /\ Running("update")
    /\ LET fields == [syntax |-> syntax[1], sentiment |-> sentiment[1]]
           id == docs[idx].doc_id
       IN /\ db' = StoreAfterUpdate(db, table, fields, {id})
          /\ updateLog' = Append(updateLog,
                                 [table |-> table, doc_id |-> id, fields |-> fields])
    /\ storeWrites' = storeWrites + 1
    /\ idx' = idx + 1
    /\ pc' = "loop"
    /\ UNCHANGED <<env, stdoutOnly, table, docs, locals, result, outVars, callLog,
                   exitVars>>

\* ----------------------------------------------- sigintHandler, lines 76-78
\* The handler is installed before main() runs (line 216) and raises
\* SystemExit(0) in the main thread wherever it is; nothing is written.
Sigint ==
    /\ status = "running"
    /\ Exit(SigintExitCode, "sigint")
    /\ UNCHANGED <<env, stdoutOnly, db, loopVars, locals, result, outVars, storeWrites,
                   callLog, updateLog>>

Next ==
    \/ MainBlob \/ MainFile \/ MainRaise
    \/ BlobOriginal \/ BlobSyntaxOk \/ BlobSyntaxFail
    \/ BlobSentimentOk \/ BlobSentimentFail \/ WriteJson
    \/ FileNotFound \/ FileOpen \/ SchemaError \/ SchemaOk
    \/ LoopAnalyze \/ LoopSkip \/ LoopComments \/ LoopDone
    \/ SyntaxOk \/ SyntaxFail \/ SentimentOk \/ SentimentFail \/ Update
    \/ Sigint

Spec == Init /\ [][Next]_vars

\* ------------------------------------- gnlp_syntax on arbitrary token lists
\* The aggregation applied to every response with at most MaxTokens tokens.
InitSyntax ==
    /\ response \in {<<r>> : r \in SyntaxResponses}
    /\ pc = "gnlp_syntax"
    /\ argT = <<>> /\ argF = TRUE /\ argStdout = FALSE /\ fileExists = TRUE
    /\ stdoutOnly = FALSE
    /\ db = EmptyStore /\ db0 = EmptyStore
    /\ table = "none" /\ docs = <<>> /\ idx = 0
    /\ syntax = <<>> /\ sentiment = <<>> /\ result = <<>>
    /\ outFiles = <<>> /\ printed = <<>> /\ storeWrites = 0
    /\ callLog = <<>> /\ updateLog = <<>>
    /\ status = "running" /\ exitCode = 0 /\ exitCause = "none"

\* lines 112-135: from the response received to the value returned
Aggregate ==
    /\ Running("gnlp_syntax")
    /\ syntax' = <<gnlp_syntax(response[1])>>
    /\ pc' = "returned"
    /\ UNCHANGED <<env, stdoutOnly, db, loopVars, sentiment, response, result,
                   outVars, storeWrites, callLog, updateLog, exitVars>>

NextSyntax == Aggregate

SpecSyntax == InitSyntax /\ [][NextSyntax]_vars

\* ------------------------------------------------------------------ claims
FirstSeen(toks, c) ==
    CHOOSE i \in 1..Len(toks) :
        toks[i].content = c /\ \A j \in 1..(i - 1) : toks[j].content /= c

RECURSIVE SumCounts(_)
SumCounts(entries) ==
    IF entries = <<>> THEN 0
    ELSE entries[1].count + SumCounts(SubSeq(entries, 2, Len(entries)))

\* C4: the keys of the tokens mapping gnlp_syntax returns are in descending
\* order of count, and keys of equal count are in the order in which they
\* were first met in the token list.
C4_DescendingStable ==
    pc = "returned" =>
        LET out == syntax[1].tokens
            toks == response[1].tokens
        IN \A i, j \in 1..Len(out) :
              i < j =>
                 \/ out[i].count > out[j].count
                 \/ /\ out[i].count = out[j].count
                    /\ FirstSeen(toks, out[i].tok) < FirstSeen(toks, out[j].tok)

\* a returned mapping in which a later-seen token overtakes two tied ones
C4_Witness ==
    /\ pc = "returned"
    /\ Len(syntax[1].tokens) = 3
    /\ syntax[1].tokens[1].tok = "c" /\ syntax[1].tokens[1].count = 2
    /\ syntax[1].tokens[2].tok = "a" /\ syntax[1].tokens[3].tok = "b"
    /\ syntax[1].tokens[2].count = syntax[1].tokens[3].count

\* C5: the counts of the returned tokens mapping add up to token_count, every
\* count is at least 1, and every distinct surface text of the token list is
\* exactly one key.
C5_CountsAddUp ==
    pc = "returned" =>
        LET out == syntax[1].tokens
            toks == response[1].tokens
        IN /\ SumCounts(out) = syntax[1].token_count
           /\ syntax[1].token_count = Len(toks)
           /\ \A i \in 1..Len(out) : out[i].count >= 1
           /\ \A i, j \in 1..Len(out) : out[i].tok = out[j].tok => i = j
           /\ {out[i].tok : i \in 1..Len(out)} = {toks[i].content : i \in 1..Len(toks)}

\* a returned mapping with a repeated token
C5_Witness ==
    /\ pc = "returned"
    /\ Len(response[1].tokens) >= 3
    /\ \E i \in 1..Len(syntax[1].tokens) : syntax[1].tokens[i].count >= 2
    /\ Len(syntax[1].tokens) >= 2

\* ------------------------------------------------- claims about the runs
BatchRun == argF /\ ~TextGiven
Doc(tbl, id) == [table |-> tbl, doc_id |-> id]
AllDocs ==
    {Doc("posts", i) : i \in 1..Len(db0.posts)}
        \cup {Doc("comments", i) : i \in 1..Len(db0.comments)}
Rec(store, d) == Records_of(store, d.table)[d.doc_id]
UpdatedDocs == {Doc(updateLog[n].table, updateLog[n].doc_id) : n \in 1..Len(updateLog)}
WrittenTo(d) ==
    updateLog[CHOOSE n \in 1..Len(updateLog) :
                 Doc(updateLog[n].table, updateLog[n].doc_id) = d].fields
HasField(rec) == rec.syntax /= <<>> \/ rec.sentiment /= <<>>
HasBoth(rec) == rec.syntax /= <<>> /\ rec.sentiment /= <<>>
\* d comes before e in the order of processing: posts first, then comments
Before(d, e) ==
    \/ d.table = "posts" /\ e.table = "comments"
    \/ d.table = e.table /\ d.doc_id < e.doc_id
\* the record of d holds what this run wrote and is otherwise as at the start
HoldsWritten(d) ==
    /\ Rec(db, d).syntax = <<WrittenTo(d).syntax>>
    /\ Rec(db, d).sentiment = <<WrittenTo(d).sentiment>>
    /\ Rec(db, d).text = Rec(db0, d).text

\* C1 as stated: after an interrupt of a batch run the documents updated by
\* the run have both fields, no other document has either field, and the
\* exit status is 0.
C1_AsStated ==
    (BatchRun /\ exitCause = "sigint") =>
        /\ exitCode = 0
        /\ \A d \in AllDocs :
              IF d \in UpdatedDocs THEN HasBoth(Rec(db, d)) ELSE ~HasField(Rec(db, d))

\* C1 amended: after an interrupt of a batch run the records of the documents
\* updated by the run hold the syntax and sentiment the run wrote, every
\* other record is exactly as it was at the start of the run, and the exit
\* status is 0.
C1_InterruptKeepsCompleted ==
    (BatchRun /\ exitCause = "sigint") =>
        /\ exitCode = 0
        /\ \A d \in AllDocs :
              IF d \in UpdatedDocs THEN HoldsWritten(d) ELSE Rec(db, d) = Rec(db0, d)

\* interrupted with two documents updated, the syntax call of a third one
\* returned, on a store without earlier analysis
C1_Witness ==
    /\ BatchRun /\ exitCause = "sigint"
    /\ Len(updateLog) = 2
    /\ Len(callLog) = 5
    /\ Cardinality(AllDocs) = 4
    /\ \A d \in AllDocs : ~HasField(Rec(db0, d))
    /\ \A d \in AllDocs : d \notin UpdatedDocs => ~HasField(Rec(db, d))

\* C2: an interrupt of a blob run whose result object has a populated field,
\* before writeJson ran, leaves that result written to the destination.
C2_FlushOnInterrupt ==
    (TextGiven /\ exitCause = "sigint" /\ result /= <<>>) =>
        IF stdoutOnly THEN printed = <<result>> ELSE outFiles = <<result>>

\* C3: a failed remote call of a batch run is the last remote call; the
\* documents updated are all before the failing one and hold what was
\* written; every other record is as at the start.
C3_FailureStopsRun ==
    \A n \in 1..Len(callLog) :
        (BatchRun /\ ~callLog[n].ok) =>
            LET failing == Doc(callLog[n].table, callLog[n].doc_id)
            IN /\ n = Len(callLog)
               /\ \A m \in 1..(n - 1) :
                     Doc(callLog[m].table, callLog[m].doc_id) /= failing
                        \/ callLog[m].kind /= callLog[n].kind
               /\ \A d \in AllDocs :
                     IF d \in UpdatedDocs
                     THEN Before(d, failing) /\ HoldsWritten(d)
                     ELSE Rec(db, d) = Rec(db0, d)

\* the sentiment call of a comment failed after a post was updated, with a
\* later comment still to analyze
C3_Witness ==
    /\ BatchRun /\ exitCause = "remote_error"
    /\ Len(updateLog) >= 1
    /\ callLog[Len(callLog)].kind = "sentiment"
    /\ callLog[Len(callLog)].table = "comments"
    /\ \E d \in AllDocs :
          /\ Before(Doc("comments", callLog[Len(callLog)].doc_id), d)
          /\ Rec(db0, d).text /= ""

\* C6: a document with empty text gets no remote call and its record stays
\* as it was, and the run goes on: a run that completes has updated every
\* document that has text.
C6_EmptyTextSkipped ==
    BatchRun =>
        /\ \A d \in AllDocs :
              Rec(db0, d).text = "" =>
                 /\ Rec(db, d) = Rec(db0, d)
                 /\ \A n \in 1..Len(callLog) :
                       Doc(callLog[n].table, callLog[n].doc_id) /= d
        /\ exitCause = "normal" =>
              UpdatedDocs = {d \in AllDocs : Rec(db0, d).text /= ""}

\* a completed run over a store whose first post and first comment are empty
\* (the comment with earlier analysis) and are followed by documents with text
C6_Witness ==
    /\ BatchRun /\ exitCause = "normal"
    /\ Len(db0.posts) = 2 /\ Len(db0.comments) = 2
    /\ db0.posts[1].text = "" /\ db0.posts[2].text /= ""
    /\ db0.comments[1].text = "" /\ HasBoth(db0.comments[1])
    /\ db0.comments[2].text /= ""
    /\ Len(updateLog) = 2

\* C7: every record of the store has both syntax and sentiment or neither.
C7_BothOrNeither ==
    \A tbl \in {"posts", "comments"} :
        \A i \in 1..Len(Records_of(db, tbl)) :
            HasBoth(Records_of(db, tbl)[i]) \/ ~HasField(Records_of(db, tbl)[i])

\* interrupted between the syntax call and the sentiment call of a document,
\* after an earlier document was updated
C7_Witness ==
    /\ BatchRun /\ exitCause = "sigint"
    /\ Len(updateLog) >= 1
    /\ callLog /= <<>>
    /\ callLog[Len(callLog)].kind = "syntax" /\ callLog[Len(callLog)].ok
    /\ \E d \in AllDocs : ~HasField(Rec(db, d)) /\ Rec(db0, d).text /= ""

\* C8 as stated: with --stdout no run writes a JSON file or the store.
C8_AsStated ==
    argStdout => outFiles = <<>> /\ storeWrites = 0 /\ db = db0

\* C8 amended: the output mode is fixed when main has read the arguments, and
\* with --stdout a blob run writes no JSON file and no store (a batch run
\* ignores the flag and updates the store in place).
C8_StdoutBlobNoDisk ==
    /\ stdoutOnly => argStdout
    /\ pc \notin {"main", "exited"} => stdoutOnly = argStdout
    /\ (argStdout /\ TextGiven) => outFiles = <<>> /\ storeWrites = 0 /\ db = db0

\* a blob run with --stdout that completed and printed the full result
C8_Witness ==
    /\ argStdout /\ TextGiven /\ exitCause = "normal"
    /\ Len(printed) = 1 /\ Len(printed[1]) = 3

\* C9: on an existing store none of whose records has a subreddit field the
\* run makes no remote call and updates no record, and it ends with the
\* schema error unless it is interrupted first.
C9_SchemaErrorFirst ==
    (BatchRun /\ fileExists
        /\ \A i \in 1..Len(db0.default) : db0.default[i].subreddit = <<>>) =>
        /\ callLog = <<>>
        /\ updateLog = <<>> /\ storeWrites = 0 /\ db = db0
        /\ pc \in {"main", "file", "schema", "exited"}
        /\ status = "exited" => exitCause \in {"schema", "sigint"}

\* the schema error on a store that has a post with text to analyze
C9_Witness ==
    /\ BatchRun /\ fileExists /\ exitCause = "schema"
    /\ db0.default /= <<>>
    /\ callLog = <<>> /\ db = db0
    /\ \E i \in 1..Len(db0.posts) : db0.posts[i].text /= ""

\* C10: exit status 0 on normal completion and on interrupt, non-zero when
\* the input file is missing or the store has the wrong schema.
C10_ExitStatus ==
    status = "exited" =>
        /\ exitCause \in {"normal", "sigint"} => exitCode = 0
        /\ exitCause \in {"not_found", "schema"} => exitCode /= 0

====
